---- MODULE Spec2Model ----
(***************************************************************************)
(* Model of the internship page                                            *)
(* (web/internship-app-frontend/src/app/page.tsx, component Home) and of   *)
(* the FilterPanel that changes its filter criteria.                       *)
(*                                                                         *)
(* A JavaScript string is a sequence of characters, each character a       *)
(* one-element TLA+ string, so that toLowerCase and includes are computed  *)
(* character by character.  An absent (undefined / null) optional string   *)
(* field is the sentinel `undefined', a tuple that is no string of         *)
(* characters.  The optional boolean `remote' is "true", "false" or        *)
(* "undefined".                                                            *)
(*                                                                         *)
(* The state of Home falls into two groups that no handler reads across:   *)
(* the listing group (internships, filters, filteredInternships, loading,  *)
(* error, viewMode and the listing requests in flight) and the saved-jobs  *)
(* group (user, token, savedJobs, savedJobIds, savingJobs, the saved-jobs  *)
(* requests in flight and the server's saved sets).  SpecFilter and        *)
(* SpecListing follow the first group, SpecSaved the second; the two       *)
(* handlers that write to both groups (the effect on [user, token] and the *)
(* "Saved Jobs" button) appear in each specification with the statements   *)
(* that write to its group.                                                *)
(***************************************************************************)
EXTENDS Integers, Sequences, FiniteSets, Bags, TLC

VARIABLES internships, filters, filteredInternships, filterError,
          loading, error, viewMode, fetchPending, refreshPending,
          user, token, savedJobs, savedJobIds, savingJobs, calls, serverSaved

filterVars == <<internships, filters, filteredInternships, filterError>>

\* fetchPending and refreshPending count the calls of fetchInternships and
\* of handleRefresh that wait for their response.
listingVars == <<loading, error, viewMode, fetchPending, refreshPending>>

\* calls is the bag of saved-jobs requests in flight, serverSaved the saved
\* set the server keeps for each token.
savedVars == <<user, token, savedJobs, savedJobIds, savingJobs, calls, serverSaved>>

vars == <<filterVars, listingVars, savedVars>>

-----------------------------------------------------------------------------
(* JavaScript values and string primitives                                 *)

undefined == <<"undefined">>

UpperCaseLetters ==
  <<"A","B","C","D","E","F","G","H","I","J","K","L","M",
    "N","O","P","Q","R","S","T","U","V","W","X","Y","Z">>

LowerCaseLetters ==
  <<"a","b","c","d","e","f","g","h","i","j","k","l","m",
    "n","o","p","q","r","s","t","u","v","w","x","y","z">>

\* The characters toLowerCase changes, and what it changes each to.
upperCaseSet == {UpperCaseLetters[k] : k \in 1..Len(UpperCaseLetters)}

lowerCaseOf ==
  [c \in upperCaseSet |->
     LowerCaseLetters[CHOOSE k \in 1..Len(UpperCaseLetters) : UpperCaseLetters[k] = c]]

\* String.prototype.toLowerCase on one character.
toLowerCaseChar(c) == IF c \in upperCaseSet THEN lowerCaseOf[c] ELSE c

\* String.prototype.toLowerCase.
toLowerCase(s) == [i \in 1..Len(s) |-> toLowerCaseChar(s[i])]

\* Calling a method on undefined raises a TypeError.
toLowerCaseThrows(v) == v = undefined

\* String.prototype.includes: t occurs in s as a contiguous substring.
includes(s, t) ==
  \E i \in 0..(Len(s) - Len(t)) : \A j \in 1..Len(t) : s[i + j] = t[j]

\* JavaScript truthiness of a string: only the empty string is falsy.
Truthy(s) == s # <<>>

\* JavaScript truthiness of the optional boolean `remote'.
TruthyFlag(b) == b = "true"

-----------------------------------------------------------------------------
(* String literals of the source                                           *)

kw_paid        == <<"p","a","i","d">>
kw_dollar      == <<"$">>
kw_hourly      == <<"h","o","u","r","l","y">>
kw_competitive == <<"c","o","m","p","e","t","i","t","i","v","e">>
kw_unpaid      == <<"u","n","p","a","i","d">>
kw_volunteer   == <<"v","o","l","u","n","t","e","e","r">>

-----------------------------------------------------------------------------
(* The filter callback of filteredInternships, check by check.  Each check *)
(* yields "pass" (the callback goes on), "false" (return false) or         *)
(* "TypeError" (the evaluation throws).                                    *)

\* As if the fields were searched without lower-casing them.
matchesSearch_fieldsNotLowered(internship, searchLower) ==
  \/ includes(internship.title, searchLower)
  \/ includes(internship.description, searchLower)
  \/ includes(internship.company, searchLower)
  \/ includes(internship.location, searchLower)

\* matchesSearch: the || chain evaluates left to right and stops at the
\* first operand that is true.
matchesSearch(internship, searchLower) ==
  \/ includes(toLowerCase(internship.title), searchLower)
  \/ includes(toLowerCase(internship.description), searchLower)
  \/ includes(toLowerCase(internship.company), searchLower)
  \/ includes(toLowerCase(internship.location), searchLower)

matchesSearchThrows(internship, searchLower) ==
  LET fields == <<internship.title, internship.description,
                  internship.company, internship.location>>
  IN \E k \in 1..4 :
       /\ toLowerCaseThrows(fields[k])
       /\ \A h \in 1..(k - 1) : ~includes(toLowerCase(fields[h]), searchLower)

checkSearchTerm(internship, f) ==
  IF ~Truthy(f.searchTerm) THEN "pass"
  ELSE LET searchLower == toLowerCase(f.searchTerm)
       IN IF matchesSearchThrows(internship, searchLower) THEN "TypeError"
          ELSE IF ~matchesSearch(internship, searchLower) THEN "false"
          ELSE "pass"

\* As if both sides of the location comparison were lower-cased first.
checkLocation_ignoresCase(internship, f) ==
  IF Truthy(f.location) /\ toLowerCase(internship.location) # toLowerCase(f.location)
  THEN "false" ELSE "pass"

checkLocation(internship, f) ==
  IF Truthy(f.location) /\ internship.location # f.location THEN "false" ELSE "pass"

checkCompany(internship, f) ==
  IF Truthy(f.company) /\ internship.company # f.company THEN "false" ELSE "pass"

\* As if only an explicit remote === false were excluded.
checkRemoteOnly_absentPasses(internship, f) ==
  IF f.remoteOnly /\ internship.remote = "false" THEN "false" ELSE "pass"

checkRemoteOnly(internship, f) ==
  IF f.remoteOnly /\ ~TruthyFlag(internship.remote) THEN "false" ELSE "pass"

\* As if the salary were read with . instead of ?.
salaryLowerThrows_noOptionalChaining(internship) ==
  toLowerCaseThrows(internship.salary)

\* internship.salary?.toLowerCase() || '' : ?. skips the call on an absent
\* salary, and || '' turns the absent or empty result into ''.
salaryLowerThrows(internship) ==
  IF internship.salary = undefined THEN FALSE
  ELSE toLowerCaseThrows(internship.salary)

salaryLower(internship) ==
  LET v == IF internship.salary = undefined THEN undefined
           ELSE toLowerCase(internship.salary)
  IN IF v = undefined \/ ~Truthy(v) THEN <<>> ELSE v

\* As if the cases of the switch had no break.
salarySwitchRejects_fallThrough(salaryRange, salary) ==
  IF salaryRange = kw_paid
  THEN \/ /\ ~includes(salary, kw_paid) /\ ~includes(salary, kw_dollar)
          /\ ~includes(salary, kw_hourly) /\ ~includes(salary, kw_competitive)
       \/ ~includes(salary, kw_unpaid) /\ ~includes(salary, kw_volunteer)
       \/ ~includes(salary, kw_competitive)
       \/ ~includes(salary, kw_hourly) /\ ~includes(salary, kw_dollar)
  ELSE IF salaryRange = kw_unpaid
  THEN \/ ~includes(salary, kw_unpaid) /\ ~includes(salary, kw_volunteer)
       \/ ~includes(salary, kw_competitive)
       \/ ~includes(salary, kw_hourly) /\ ~includes(salary, kw_dollar)
  ELSE IF salaryRange = kw_competitive
  THEN \/ ~includes(salary, kw_competitive)
       \/ ~includes(salary, kw_hourly) /\ ~includes(salary, kw_dollar)
  ELSE IF salaryRange = kw_hourly
  THEN ~includes(salary, kw_hourly) /\ ~includes(salary, kw_dollar)
  ELSE FALSE

\* As if the switch had a default case that returns false.
salarySwitchRejects_defaultReject(salaryRange, salary) ==
  IF salaryRange = kw_paid
  THEN /\ ~includes(salary, kw_paid) /\ ~includes(salary, kw_dollar)
       /\ ~includes(salary, kw_hourly) /\ ~includes(salary, kw_competitive)
  ELSE IF salaryRange = kw_unpaid
  THEN ~includes(salary, kw_unpaid) /\ ~includes(salary, kw_volunteer)
  ELSE IF salaryRange = kw_competitive
  THEN ~includes(salary, kw_competitive)
  ELSE IF salaryRange = kw_hourly
  THEN ~includes(salary, kw_hourly) /\ ~includes(salary, kw_dollar)
  ELSE TRUE

\* switch (filters.salaryRange): TRUE when the selected case returns false.
\* A value that matches no case falls out of the switch.
\* As if the 'paid' case did not look for "competitive".
salarySwitchRejects_paidWithoutCompetitive(salaryRange, salary) ==
  IF salaryRange = kw_paid
  THEN /\ ~includes(salary, kw_paid) /\ ~includes(salary, kw_dollar)
       /\ ~includes(salary, kw_hourly)
  ELSE IF salaryRange = kw_unpaid
  THEN ~includes(salary, kw_unpaid) /\ ~includes(salary, kw_volunteer)
  ELSE IF salaryRange = kw_competitive
  THEN ~includes(salary, kw_competitive)
  ELSE IF salaryRange = kw_hourly
  THEN ~includes(salary, kw_hourly) /\ ~includes(salary, kw_dollar)
  ELSE FALSE

salarySwitchRejects(salaryRange, salary) ==
  IF salaryRange = kw_paid
  THEN /\ ~includes(salary, kw_paid) /\ ~includes(salary, kw_dollar)
       /\ ~includes(salary, kw_hourly) /\ ~includes(salary, kw_competitive)
  ELSE IF salaryRange = kw_unpaid
  THEN ~includes(salary, kw_unpaid) /\ ~includes(salary, kw_volunteer)
  ELSE IF salaryRange = kw_competitive
  THEN ~includes(salary, kw_competitive)
  ELSE IF salaryRange = kw_hourly
  THEN ~includes(salary, kw_hourly) /\ ~includes(salary, kw_dollar)
  ELSE FALSE

\* As if the salary filter were skipped for a posting without salary text.
checkSalaryRange_skipsAbsentSalary(internship, f) ==
  IF ~Truthy(f.salaryRange) \/ internship.salary = undefined
     \/ ~Truthy(internship.salary) THEN "pass"
  ELSE IF salarySwitchRejects(f.salaryRange, salaryLower(internship)) THEN "false"
  ELSE "pass"

checkSalaryRange(internship, f) ==
  IF ~Truthy(f.salaryRange) THEN "pass"
  ELSE IF salaryLowerThrows(internship) THEN "TypeError"
  ELSE IF salarySwitchRejects(f.salaryRange, salaryLower(internship)) THEN "false"
  ELSE "pass"

\* As if the job type were compared without the filters.jobType && guard.
checkJobType_unguarded(internship, f) ==
  IF internship.job_type # f.jobType THEN "false" ELSE "pass"

checkJobType(internship, f) ==
  IF Truthy(f.jobType) /\ internship.job_type # f.jobType THEN "false" ELSE "pass"

\* One check after another: a check that does not pass ends the callback
\* with its outcome (return false, or the exception), the later checks are
\* not evaluated.
andThen(check, rest) == IF check # "pass" THEN check ELSE rest

\* As if the company check were chained to the location check with else-if.
filterCallback_elseIfCompany(internship, f) ==
  andThen(checkSearchTerm(internship, f),
  andThen(checkLocation(internship, f),
  andThen(IF Truthy(f.location) THEN "pass" ELSE checkCompany(internship, f),
  andThen(checkRemoteOnly(internship, f),
  andThen(checkSalaryRange(internship, f),
  andThen(checkJobType(internship, f),
          "true"))))))

filterCallback(internship, f) ==
  andThen(checkSearchTerm(internship, f),
  andThen(checkLocation(internship, f),
  andThen(checkCompany(internship, f),
  andThen(checkRemoteOnly(internship, f),
  andThen(checkSalaryRange(internship, f),
  andThen(checkJobType(internship, f),
          "true"))))))

\* Array.prototype.filter with the callback above: the elements for which
\* the callback returns true, in order.
RECURSIVE arrayFilter(_, _)
arrayFilter(list, f) ==
  IF list = <<>> THEN <<>>
  ELSE IF filterCallback(Head(list), f) = "true"
       THEN <<Head(list)>> \o arrayFilter(Tail(list), f)
       ELSE arrayFilter(Tail(list), f)

RECURSIVE reverseSeq(_)
reverseSeq(s) == IF s = <<>> THEN <<>> ELSE Append(reverseSeq(Tail(s)), Head(s))

\* As if the kept postings were collected in reverse order.
filterInternships_reversed(list, f) == reverseSeq(arrayFilter(list, f))

\* As if the scan started at the second posting.
filterInternships_skipFirst(list, f) ==
  IF list = <<>> THEN <<>> ELSE arrayFilter(Tail(list), f)

\* As if the output were cut to its first posting.
filterInternships_firstOnly(list, f) ==
  LET r == arrayFilter(list, f) IN IF r = <<>> THEN <<>> ELSE <<Head(r)>>

\* filteredInternships: internships.filter(callback).
filterInternships(list, f) == arrayFilter(list, f)

\* The filter throws when the callback throws on an element.
filterThrows(list, f) ==
  \E k \in 1..Len(list) : filterCallback(list[k], f) = "TypeError"

-----------------------------------------------------------------------------
(* FilterPanel: the values its inputs offer, and its handlers              *)

neutralFilters ==
  [searchTerm |-> <<>>, location |-> <<>>, remoteOnly |-> FALSE,
   salaryRange |-> <<>>, company |-> <<>>, jobType |-> <<>>]

\* <option value=""> followed by one option per distinct location.
locationOptions(list) == {<<>>} \cup {list[k].location : k \in 1..Len(list)}

companyOptions(list) == {<<>>} \cup {list[k].company : k \in 1..Len(list)}

\* .filter(Boolean) drops undefined and the empty string.
jobTypeOptions(list) ==
  {<<>>} \cup {list[k].job_type : k \in {h \in 1..Len(list) :
                   list[h].job_type # undefined /\ Truthy(list[h].job_type)}}

\* The UTF-16 code units of the characters in use, in ascending order.
codeUnitOrder ==
  <<" ", "$", "/", "0", "1", "2", "3", "4", "5", "6", "7", "8", "9">>
    \o UpperCaseLetters \o LowerCaseLetters \o <<"U+20AC">>

codeUnitOf ==
  [c \in {codeUnitOrder[k] : k \in 1..Len(codeUnitOrder)} |->
     CHOOSE k \in 1..Len(codeUnitOrder) : codeUnitOrder[k] = c]

\* The comparison of Array.prototype.sort() without a comparator: strings
\* are ordered by their code units, a proper prefix before its extensions.
RECURSIVE sortsBefore(_, _)
sortsBefore(a, b) ==
  IF b = <<>> THEN FALSE
  ELSE IF a = <<>> THEN TRUE
  ELSE IF Head(a) = Head(b) THEN sortsBefore(Tail(a), Tail(b))
  ELSE codeUnitOf[Head(a)] < codeUnitOf[Head(b)]

\* Array.from(new Set(values)).sort()
RECURSIVE sortedDistinct(_)
sortedDistinct(values) ==
  IF values = {} THEN <<>>
  ELSE LET first == CHOOSE v \in values :
                      \A w \in values : w = v \/ sortsBefore(v, w)
       IN <<first>> \o sortedDistinct(values \ {first})

uniqueLocations(list) == sortedDistinct({list[k].location : k \in 1..Len(list)})

uniqueCompanies(list) == sortedDistinct({list[k].company : k \in 1..Len(list)})

uniqueJobTypes(list) ==
  sortedDistinct({list[k].job_type : k \in {h \in 1..Len(list) :
                    list[h].job_type # undefined /\ Truthy(list[h].job_type)}})

salaryRangeOptions == {<<>>, kw_paid, kw_unpaid, kw_competitive, kw_hourly}

\* Object.values(filters).some(value => value !== '' && value !== false)
hasActiveFilters(f) ==
  \/ f.searchTerm # <<>> \/ f.location # <<>> \/ f.remoteOnly # FALSE
  \/ f.salaryRange # <<>> \/ f.company # <<>> \/ f.jobType # <<>>

-----------------------------------------------------------------------------
(* Bounded inputs                                                          *)

MaxLen == 2

s_SWE_Intern           == <<"S","W","E"," ","I","n","t","e","r","n">>
s_NYC_Intern           == <<"N","Y","C"," ","I","n","t","e","r","n">>
s_Python_backend       == <<"P","y","t","h","o","n"," ","b","a","c","k","e","n","d">>
s_Sunny_office         == <<"S","u","n","n","y"," ","o","f","f","i","c","e">>
s_Acme                 == <<"A","c","m","e">>
s_Sony                 == <<"S","o","n","y">>
s_Remote               == <<"R","e","m","o","t","e">>
s_NYC                  == <<"N","Y","C">>
s_nyc                  == <<"n","y","c">>
s_25_hr                == <<"$","2","5","/","h","r">>
s_euro_20_hr           == <<"U+20AC","2","0","/","h","r">>
s_Unpaid               == <<"U","n","p","a","i","d">>
s_Competitive          == <<"C","o","m","p","e","t","i","t","i","v","e">>
s_Hourly               == <<"H","o","u","r","l","y">>
s_Volunteer            == <<"V","o","l","u","n","t","e","e","r">>
s_Paid                 == <<"P","a","i","d">>
s_Stipend              == <<"S","t","i","p","e","n","d">>
s_Software_Engineering == <<"S","o","f","t","w","a","r","e"," ","E","n","g","i","n","e","e","r","i","n","g">>
s_NY                   == <<"N","Y">>
s_python               == <<"p","y","t","h","o","n">>
s_stipend              == <<"s","t","i","p","e","n","d">>

Posting(id, title, company, location, description, salary, remote, job_type) ==
  [id |-> id, title |-> title, company |-> company, location |-> location,
   description |-> description, salary |-> salary, remote |-> remote,
   job_type |-> job_type]

Titles       == {s_SWE_Intern, s_NYC_Intern}
Descriptions == {s_Python_backend, s_Sunny_office}
Companies    == {s_Acme, s_Sony}
Locations    == {s_Remote, s_NYC}
Salaries     == {undefined, <<>>, s_25_hr, s_euro_20_hr, s_Unpaid, s_Competitive,
                 s_Hourly, s_Volunteer, s_Paid, s_Stipend}
RemoteFlags  == {"true", "false", "undefined"}
JobTypes     == {undefined, s_Software_Engineering}

\* Postings that differ in the four searched text fields.
TextVariants ==
  {Posting("t", t, c, l, d, s_25_hr, "true", s_Software_Engineering) :
     t \in Titles, c \in Companies, l \in Locations, d \in Descriptions}

\* Postings that differ in the optional salary text.
SalaryVariants ==
  {Posting("s", s_SWE_Intern, s_Acme, s_NYC, s_Python_backend, s, "true",
           s_Software_Engineering) : s \in Salaries}

\* Postings that differ in the optional remote flag and job type.
FlagVariants ==
  {Posting("f", s_SWE_Intern, s_Acme, s_NYC, s_Python_backend, s_25_hr, r, j) :
     r \in RemoteFlags, j \in JobTypes}

\* A posting whose required text fields company and location are the empty
\* string, and whose job type is the empty string.
BlankVariants ==
  {Posting("b", s_SWE_Intern, <<>>, <<>>, s_Python_backend, s_25_hr, "true", <<>>)}

\* The listing from which the longer collections are drawn.
Catalogue ==
  {Posting("1", s_SWE_Intern, s_Acme, s_Remote, s_Python_backend,
           s_25_hr, "true", s_Software_Engineering),
   Posting("2", s_NYC_Intern, s_Sony, s_NYC, s_Sunny_office,
           s_Unpaid, "undefined", undefined),
   Posting("3", s_SWE_Intern, s_Acme, s_NYC, s_Python_backend,
           undefined, "false", s_Software_Engineering)}

BoundedSeq(S, n) == UNION {[1..m -> S] : m \in 0..n}

InputLists ==
  BoundedSeq(Catalogue, MaxLen) \cup {<<p>> : p \in TextVariants \cup SalaryVariants \cup FlagVariants \cup BlankVariants}

SearchTerms == {<<>>, s_NY, s_python}

InputFilters ==
  [searchTerm : SearchTerms, location : {<<>>, s_NYC, s_nyc},
   remoteOnly : BOOLEAN, salaryRange : salaryRangeOptions \cup {s_stipend},
   company : {<<>>, s_Acme}, jobType : {<<>>, s_Software_Engineering}]

-----------------------------------------------------------------------------
(* Initial values of the state of Home                                     *)

NoError == "null"
NoUser  == "null"
NoToken == "null"

\* The accounts that can log in, each named by its bearer token.
Tokens == {"t1"}

\* Two accounts, for the runs in which one user follows another on the page.
Accounts == Tokens \cup {"t2"}

\* useState defaults of loading, error, viewMode are overridden where a
\* specification starts later than the first render.
ListingIdle ==
  /\ loading = FALSE /\ error = NoError /\ viewMode = "all"
  /\ fetchPending = 0 /\ refreshPending = 0

SavedIdle ==
  /\ user = NoUser /\ token = NoToken
  /\ savedJobs = {} /\ savedJobIds = {} /\ savingJobs = {}
  /\ calls = EmptyBag
  /\ serverSaved = [t \in Tokens |-> {}]

-----------------------------------------------------------------------------
(* The page re-computes filteredInternships (useMemo) whenever internships *)
(* or filters change; an exception thrown by the filter is filterError.    *)

\* As if the dependency list of useMemo were [internships] alone.
Render_depsOmitFilters(list, f) ==
  IF list # internships
  THEN LET threw == filterThrows(list, f)
       IN /\ filterError' = threw
          /\ filteredInternships' = IF threw THEN <<>> ELSE filterInternships(list, f)
  ELSE UNCHANGED <<filterError, filteredInternships>>

Render(list, f) ==
  LET threw == filterThrows(list, f)
  IN /\ filterError' = threw
     /\ filteredInternships' = IF threw THEN <<>> ELSE filterInternships(list, f)

InitFilter ==
  /\ internships \in InputLists
  /\ filters \in InputFilters
  /\ filterError = filterThrows(internships, filters)
  /\ filteredInternships = IF filterError THEN <<>>
                           ELSE filterInternships(internships, filters)
  /\ ListingIdle
  /\ SavedIdle

\* The panel is rendered in the "all" view while nothing loads and the
\* collection is not empty.
panelShown == ~loading /\ viewMode = "all" /\ Len(internships) > 0

optionsOf(key) ==
  IF key = "searchTerm" THEN SearchTerms
  ELSE IF key = "location" THEN locationOptions(internships)
  ELSE IF key = "company" THEN companyOptions(internships)
  ELSE IF key = "remoteOnly" THEN BOOLEAN
  ELSE IF key = "salaryRange" THEN salaryRangeOptions
  ELSE jobTypeOptions(internships)

handleFilterChange ==
  /\ panelShown
  /\ \E key \in DOMAIN filters : \E value \in optionsOf(key) :
       filters' = [filters EXCEPT ![key] = value]
  /\ UNCHANGED internships
  /\ Render(internships', filters')
  /\ UNCHANGED <<listingVars, savedVars>>

clearFilters ==
  /\ panelShown
  /\ hasActiveFilters(filters)
  /\ filters' = neutralFilters
  /\ UNCHANGED internships
  /\ Render(internships', filters')
  /\ UNCHANGED <<listingVars, savedVars>>

\* "Clear All Filters" of the no-results state.
clearAllFilters ==
  /\ ~loading
  /\ Len(internships) > 0
  /\ Len(filteredInternships) = 0
  /\ filters' = neutralFilters
  /\ UNCHANGED internships
  /\ Render(internships', filters')
  /\ UNCHANGED <<listingVars, savedVars>>

NextFilter == handleFilterChange \/ clearFilters \/ clearAllFilters

SpecFilter == InitFilter /\ [][NextFilter]_vars

-----------------------------------------------------------------------------
(* Listing fetches: fetchInternships, handleRefresh, the effect on         *)
(* [user, token] and the buttons that call them                            *)

\* At most this many listing requests wait for a response at once.
MaxRequests == 2

\* new Error('Failed to fetch internships') of a non-ok response, and the
\* message of the error with which fetch or response.json() rejects.
FailedToFetchInternships == "Failed to fetch internships"
RejectionMessage == "Failed to fetch"
ErrorMessages == {FailedToFetchInternships, RejectionMessage}

\* The bodies the server sends for GET /internships.
ListingData ==
  {<<>>,
   <<Posting("3", s_SWE_Intern, s_Acme, s_NYC, s_Python_backend,
             undefined, "false", s_Software_Engineering)>>,
   <<Posting("2", s_NYC_Intern, s_Sony, s_NYC, s_Sunny_office,
             s_Unpaid, "undefined", undefined),
     Posting("3", s_SWE_Intern, s_Acme, s_NYC, s_Python_backend,
             undefined, "false", s_Software_Engineering)>>}

requestsInFlight == fetchPending + refreshPending

\* fetchInternships up to its first await: setLoading(true), then the GET.
callFetchInternships ==
  /\ loading' = TRUE
  /\ fetchPending' = fetchPending + 1

InitListing ==
  /\ internships = <<>>
  /\ filters = neutralFilters
  /\ filteredInternships = <<>>
  /\ filterError = FALSE
  /\ loading = TRUE /\ error = NoError /\ viewMode = "all"
  /\ fetchPending = 1 /\ refreshPending = 0
  /\ SavedIdle

\* The effect runs again when user or token changes.
useEffectListing ==
  /\ requestsInFlight < MaxRequests
  /\ callFetchInternships
  /\ UNCHANGED <<filterVars, error, viewMode, refreshPending, savedVars>>

\* "Try Again" of the error block.
clickTryAgain ==
  /\ error # NoError
  /\ requestsInFlight < MaxRequests
  /\ callFetchInternships
  /\ UNCHANGED <<filterVars, error, viewMode, refreshPending, savedVars>>

\* "Refresh Data" of the empty state.
clickRefreshData ==
  /\ ~loading /\ Len(internships) = 0 /\ error = NoError
  /\ requestsInFlight < MaxRequests
  /\ callFetchInternships
  /\ UNCHANGED <<filterVars, error, viewMode, refreshPending, savedVars>>

\* The response is ok and its body parses.
fetchInternshipsOk ==
  /\ fetchPending > 0
  /\ \E data \in ListingData : internships' = data
  /\ error' = NoError
  /\ loading' = FALSE
  /\ fetchPending' = fetchPending - 1
  /\ UNCHANGED filters
  /\ Render(internships', filters')
  /\ UNCHANGED <<viewMode, refreshPending, savedVars>>

\* As if the catch block called fetchInternships again.
fetchInternshipsFailed_retries ==
  /\ fetchPending > 0
  /\ \E message \in ErrorMessages : error' = message
  /\ loading' = TRUE
  /\ UNCHANGED fetchPending
  /\ UNCHANGED <<filterVars, viewMode, refreshPending, savedVars>>

\* As if the catch block emptied the collection.
fetchInternshipsFailed_clearsList ==
  /\ fetchPending > 0
  /\ \E message \in ErrorMessages : error' = message
  /\ loading' = FALSE
  /\ fetchPending' = fetchPending - 1
  /\ internships' = <<>>
  /\ UNCHANGED filters
  /\ Render(internships', filters')
  /\ UNCHANGED <<viewMode, refreshPending, savedVars>>

\* The response is not ok, or fetch or response.json() rejects.
fetchInternshipsFailed ==
  /\ fetchPending > 0
  /\ \E message \in ErrorMessages : error' = message
  /\ loading' = FALSE
  /\ fetchPending' = fetchPending - 1
  /\ UNCHANGED <<filterVars, viewMode, refreshPending, savedVars>>

\* As if the trigger request were not awaited: the listing is fetched at
\* once.
handleRefresh_withoutAwait ==
  /\ ~loading
  /\ requestsInFlight + 1 < MaxRequests
  /\ loading' = TRUE
  /\ refreshPending' = refreshPending + 1
  /\ fetchPending' = fetchPending + 1
  /\ UNCHANGED <<filterVars, error, viewMode, savedVars>>

\* The "Refresh" button (disabled while loading) up to the first await.
handleRefresh ==
  /\ ~loading
  /\ requestsInFlight < MaxRequests
  /\ loading' = TRUE
  /\ refreshPending' = refreshPending + 1
  /\ UNCHANGED <<filterVars, error, viewMode, fetchPending, savedVars>>

\* GET /internships/refresh answers, with whatever status: handleRefresh
\* goes on to call fetchInternships.
handleRefreshTriggered ==
  /\ refreshPending > 0
  /\ refreshPending' = refreshPending - 1
  /\ callFetchInternships
  /\ UNCHANGED <<filterVars, error, viewMode, savedVars>>

\* As if the catch block of handleRefresh did not call setLoading(false).
handleRefreshRejected_loadingKept ==
  /\ refreshPending > 0
  /\ refreshPending' = refreshPending - 1
  /\ error' = RejectionMessage
  /\ UNCHANGED <<filterVars, loading, viewMode, fetchPending, savedVars>>

\* GET /internships/refresh rejects.
handleRefreshRejected ==
  /\ refreshPending > 0
  /\ refreshPending' = refreshPending - 1
  /\ error' = RejectionMessage
  /\ loading' = FALSE
  /\ UNCHANGED <<filterVars, viewMode, fetchPending, savedVars>>

\* "All Internships" of the view toggle.
clickAllInternships ==
  /\ viewMode' = "all"
  /\ UNCHANGED <<filterVars, loading, error, fetchPending, refreshPending, savedVars>>

\* "Saved Jobs" of the view toggle: setViewMode('saved').
clickSavedJobsListing ==
  /\ viewMode' = "saved"
  /\ UNCHANGED <<filterVars, loading, error, fetchPending, refreshPending, savedVars>>

NextListing ==
  \/ useEffectListing \/ clickTryAgain \/ clickRefreshData
  \/ fetchInternshipsOk \/ fetchInternshipsFailed
  \/ handleRefresh \/ handleRefreshTriggered \/ handleRefreshRejected
  \/ clickAllInternships \/ clickSavedJobsListing
  \/ handleFilterChange \/ clearFilters \/ clearAllFilters

SpecListing == InitListing /\ [][NextListing]_vars

\* The error block (with its "Try Again" button) is rendered.
tryAgainShown == error # NoError

-----------------------------------------------------------------------------
(* Saved jobs: fetchSavedJobs, fetchSavedJobIds, handleSaveJob,            *)
(* handleUnsaveJob, the effect on [user, token] and the "Saved Jobs"       *)
(* button.  An async function holds the token of the render in which it    *)
(* was called: a request in flight is a record with that token (tok), the  *)
(* posting id of a save or unsave (id), the ok answer of the server once   *)
(* it has given one (st, data), and, for the fetchSavedJobs that           *)
(* handleSaveJob or handleUnsaveJob awaits, the id whose savingJobs marker *)
(* the finally block of that handler deletes (after).                      *)

\* At most this many saved-jobs requests are in flight at once.
MaxCalls == 2

\* The ids of the postings on the page.
JobIds == {"2", "3"}

None == "-"

Call(op, id, tok, after) ==
  [op |-> op, id |-> id, tok |-> tok, st |-> "sent", data |-> {}, after |-> after]

inFlight == BagToSet(calls)

issue(bag, c) == bag (+) SetToBag({c})

settle(bag, c) == bag (-) SetToBag({c})

\* The page with the listing loaded and nobody logged in.
InitSaved ==
  /\ \E data \in ListingData :
        /\ Len(data) = Cardinality(JobIds)
        /\ internships = data
  /\ filters = neutralFilters
  /\ filteredInternships = internships
  /\ filterError = FALSE
  /\ ListingIdle
  /\ SavedIdle

\* AuthContext sets user and token together; the effect then calls
\* fetchSavedJobIds and fetchSavedJobs with the new token.
login ==
  /\ user = NoUser
  /\ BagCardinality(calls) + 2 <= MaxCalls
  /\ \E t \in DOMAIN serverSaved :
       /\ user' = t /\ token' = t
       /\ calls' = issue(issue(calls, Call("ids", None, t, None)),
                         Call("list", None, t, None))
  /\ UNCHANGED <<savedJobs, savedJobIds, savingJobs, serverSaved>>
  /\ UNCHANGED <<filterVars, listingVars>>

\* AuthContext clears user and token; the effect finds user && token false.
logout ==
  /\ user # NoUser
  /\ user' = NoUser /\ token' = NoToken
  /\ UNCHANGED <<savedJobs, savedJobIds, savingJobs, calls, serverSaved>>
  /\ UNCHANGED <<filterVars, listingVars>>

\* The server takes a request and answers ok: a save adds the id to the
\* saved set of the token's account, an unsave removes it, the two list
\* requests answer with that set.
serverAnswers(c) ==
  /\ BagIn(c, calls) /\ c.st = "sent"
  /\ serverSaved' =
       [serverSaved EXCEPT ![c.tok] =
          IF c.op = "save" THEN @ \cup {c.id}
          ELSE IF c.op = "unsave" THEN @ \ {c.id}
          ELSE @]
  /\ calls' = issue(settle(calls, c),
                    [c EXCEPT !.st = "ok",
                              !.data = IF c.op \in {"list", "ids"}
                                       THEN serverSaved[c.tok] ELSE {}])
  /\ UNCHANGED <<user, token, savedJobs, savedJobIds, savingJobs>>
  /\ UNCHANGED <<filterVars, listingVars>>

\* As if the id were added to savedJobIds before the POST is sent.
handleSaveJob_optimistic(id) ==
  IF token = NoToken THEN UNCHANGED vars
  ELSE /\ BagCardinality(calls) < MaxCalls
       /\ savingJobs' = savingJobs \cup {id}
       /\ savedJobIds' = savedJobIds \cup {id}
       /\ calls' = issue(calls, Call("save", id, token, None))
       /\ UNCHANGED <<user, token, savedJobs, serverSaved>>
       /\ UNCHANGED <<filterVars, listingVars>>

\* handleSaveJob up to its await: the marker is set and the POST is sent.
handleSaveJob(id) ==
  IF token = NoToken THEN UNCHANGED vars
  ELSE /\ BagCardinality(calls) < MaxCalls
       /\ savingJobs' = savingJobs \cup {id}
       /\ calls' = issue(calls, Call("save", id, token, None))
       /\ UNCHANGED <<user, token, savedJobs, savedJobIds, serverSaved>>
       /\ UNCHANGED <<filterVars, listingVars>>

\* handleUnsaveJob up to its await: the marker is set, the DELETE is sent.
handleUnsaveJob(id) ==
  IF token = NoToken THEN UNCHANGED vars
  ELSE /\ BagCardinality(calls) < MaxCalls
       /\ savingJobs' = savingJobs \cup {id}
       /\ calls' = issue(calls, Call("unsave", id, token, None))
       /\ UNCHANGED <<user, token, savedJobs, savedJobIds, serverSaved>>
       /\ UNCHANGED <<filterVars, listingVars>>

\* response.ok of the POST: the id is added and fetchSavedJobs is awaited,
\* with the token handleSaveJob was called with.
handleSaveJobOk(c) ==
  /\ BagIn(c, calls) /\ c.op = "save" /\ c.st = "ok"
  /\ savedJobIds' = savedJobIds \cup {c.id}
  /\ calls' = issue(settle(calls, c), Call("list", None, c.tok, c.id))
  /\ UNCHANGED <<user, token, savedJobs, savingJobs, serverSaved>>
  /\ UNCHANGED <<filterVars, listingVars>>

\* response.ok of the DELETE.
handleUnsaveJobOk(c) ==
  /\ BagIn(c, calls) /\ c.op = "unsave" /\ c.st = "ok"
  /\ savedJobIds' = savedJobIds \ {c.id}
  /\ calls' = issue(settle(calls, c), Call("list", None, c.tok, c.id))
  /\ UNCHANGED <<user, token, savedJobs, savingJobs, serverSaved>>
  /\ UNCHANGED <<filterVars, listingVars>>

\* The POST or DELETE is answered with a status that is not ok (the server
\* having changed nothing), or the fetch rejects: alert, then the finally
\* block deletes the marker.
handleSaveOrUnsaveFailed(c) ==
  /\ BagIn(c, calls) /\ c.op \in {"save", "unsave"}
  /\ savingJobs' = savingJobs \ {c.id}
  /\ calls' = settle(calls, c)
  /\ UNCHANGED <<user, token, savedJobs, savedJobIds, serverSaved>>
  /\ UNCHANGED <<filterVars, listingVars>>

\* The finally block of the handler that awaits this fetchSavedJobs.
finallyOf(c) == IF c.after = None THEN savingJobs ELSE savingJobs \ {c.after}

\* response.ok of GET /saved-jobs: both savedJobs and savedJobIds are
\* replaced by the answer.
fetchSavedJobsOk(c) ==
  /\ BagIn(c, calls) /\ c.op = "list" /\ c.st = "ok"
  /\ savedJobs' = c.data
  /\ savedJobIds' = c.data
  /\ savingJobs' = finallyOf(c)
  /\ calls' = settle(calls, c)
  /\ UNCHANGED <<user, token, serverSaved>>
  /\ UNCHANGED <<filterVars, listingVars>>

\* GET /saved-jobs is answered not ok, or rejects: nothing is set.
fetchSavedJobsFailed(c) ==
  /\ BagIn(c, calls) /\ c.op = "list"
  /\ savingJobs' = finallyOf(c)
  /\ calls' = settle(calls, c)
  /\ UNCHANGED <<user, token, savedJobs, savedJobIds, serverSaved>>
  /\ UNCHANGED <<filterVars, listingVars>>

\* response.ok of GET /saved-jobs/ids.
fetchSavedJobIdsOk(c) ==
  /\ BagIn(c, calls) /\ c.op = "ids" /\ c.st = "ok"
  /\ savedJobIds' = c.data
  /\ calls' = settle(calls, c)
  /\ UNCHANGED <<user, token, savedJobs, savingJobs, serverSaved>>
  /\ UNCHANGED <<filterVars, listingVars>>

fetchSavedJobIdsFailed(c) ==
  /\ BagIn(c, calls) /\ c.op = "ids"
  /\ calls' = settle(calls, c)
  /\ UNCHANGED <<user, token, savedJobs, savedJobIds, savingJobs, serverSaved>>
  /\ UNCHANGED <<filterVars, listingVars>>

\* "Saved Jobs" of the view toggle: await fetchSavedJobs().
clickSavedJobsSaved ==
  IF token = NoToken THEN UNCHANGED vars
  ELSE /\ BagCardinality(calls) < MaxCalls
       /\ calls' = issue(calls, Call("list", None, token, None))
       /\ UNCHANGED <<user, token, savedJobs, savedJobIds, savingJobs, serverSaved>>
       /\ UNCHANGED <<filterVars, listingVars>>

\* The steps in which every request is answered ok and arrives.
NextSavedAllOk ==
  \/ login \/ logout \/ clickSavedJobsSaved
  \/ \E id \in JobIds : handleSaveJob(id)
  \/ \E id \in JobIds : handleUnsaveJob(id)
  \/ \E c \in inFlight : serverAnswers(c)
  \/ \E c \in inFlight : handleSaveJobOk(c)
  \/ \E c \in inFlight : handleUnsaveJobOk(c)
  \/ \E c \in inFlight : fetchSavedJobsOk(c)
  \/ \E c \in inFlight : fetchSavedJobIdsOk(c)

NextSaved ==
  \/ NextSavedAllOk
  \/ \E c \in inFlight : handleSaveOrUnsaveFailed(c)
  \/ \E c \in inFlight : fetchSavedJobsFailed(c)
  \/ \E c \in inFlight : fetchSavedJobIdsFailed(c)

SpecSaved == InitSaved /\ [][NextSaved]_vars

SpecSavedAllOk == InitSaved /\ [][NextSavedAllOk]_vars

\* The page with the listing loaded and nobody logged in; each of the
\* accounts has some saved postings at the server.
InitSessions ==
  /\ \E data \in ListingData :
        /\ Len(data) = Cardinality(JobIds)
        /\ internships = data
  /\ filters = neutralFilters
  /\ filteredInternships = internships
  /\ filterError = FALSE
  /\ ListingIdle
  /\ user = NoUser /\ token = NoToken
  /\ savedJobs = {} /\ savedJobIds = {} /\ savingJobs = {}
  /\ calls = EmptyBag
  /\ serverSaved \in [Accounts -> SUBSET JobIds]

\* Users log in and out and look at their saved jobs; nothing is saved or
\* unsaved.
NextSessions ==
  \/ login \/ logout \/ clickSavedJobsSaved
  \/ \E c \in inFlight : serverAnswers(c)
  \/ \E c \in inFlight : fetchSavedJobsOk(c)
  \/ \E c \in inFlight : fetchSavedJobIdsOk(c)
  \/ \E c \in inFlight : fetchSavedJobsFailed(c)
  \/ \E c \in inFlight : fetchSavedJobIdsFailed(c)

SpecSessions == InitSessions /\ [][NextSessions]_vars

-----------------------------------------------------------------------------
(* Properties of the filter                                                *)

FilterKeys == DOMAIN neutralFilters

\* The criteria with every field neutral except `key'.
Only(f, key) == [neutralFilters EXCEPT ![key] = f[key]]

\* posting is in filter([posting], f)
kept(posting, f) == filterInternships(<<posting>>, f) = <<posting>>

RECURSIVE IsSubsequence(_, _)
IsSubsequence(a, b) ==
  IF a = <<>> THEN TRUE
  ELSE IF b = <<>> THEN FALSE
  ELSE IF Head(a) = Head(b) THEN IsSubsequence(Tail(a), Tail(b))
  ELSE IsSubsequence(a, Tail(b))

InsertAt(s, i, e) == SubSeq(s, 1, i - 1) \o <<e>> \o SubSeq(s, i, Len(s))

\* C1: a posting is kept by filter([P], C) exactly when it is kept by each
\* field of C taken alone: the result is the conjunction of the per-field
\* predicates.
C1_ConjunctionOfPredicates ==
  \A k \in 1..Len(internships) :
    kept(internships[k], filters)
      <=> \A key \in FilterKeys : kept(internships[k], Only(filters, key))

\* A posting that passes the location predicate and fails the company one.
C1_Witness ==
  /\ Len(internships) = 1
  /\ filters.location = s_NYC /\ internships[1].location = s_NYC
  /\ filters.company = s_Acme /\ internships[1].company = s_Sony
  /\ filteredInternships = <<>>

\* C2: with every criteria field neutral the filter returns its input, same
\* elements in the same order.
C2_NeutralIsIdentity ==
  filters = neutralFilters => (~filterError /\ filteredInternships = internships)

C2_Witness ==
  /\ filters = neutralFilters
  /\ Len(internships) >= 2
  /\ internships[1] # internships[2]
  /\ \E k \in 1..Len(internships) :
       internships[k].salary = undefined /\ internships[k].job_type # undefined
  /\ \E k \in 1..Len(internships) : internships[k].job_type = undefined
  /\ filteredInternships = internships

\* C3: the output is a subsequence of the input (only input postings, none
\* more often than in the input, in their original relative order).
C3_OutputIsSubsequence == IsSubsequence(filteredInternships, internships)

C3_Witness ==
  /\ Len(internships) >= 2
  /\ Len(filteredInternships) >= 1
  /\ Len(filteredInternships) < Len(internships)
  /\ hasActiveFilters(filters)

\* C4: filtering the output again with the same criteria changes nothing.
C4_Idempotent ==
  filterInternships(filteredInternships, filters) = filteredInternships

C4_Witness ==
  /\ Len(filteredInternships) >= 1
  /\ Len(filteredInternships) < Len(internships)
  /\ filterInternships(filteredInternships, filters) = filteredInternships

\* C5: inserting one posting anywhere into the input leaves the output as it
\* was, or adds exactly that posting to it; no prior match is removed or
\* reordered.
C5_MonotoneInInput ==
  \A p \in Catalogue : \A i \in 1..(Len(internships) + 1) :
    LET out == filterInternships(InsertAt(internships, i, p), filters)
    IN \/ out = filteredInternships
       \/ \E j \in 1..(Len(filteredInternships) + 1) :
            out = InsertAt(filteredInternships, j, p)

\* Some posting would be added to a non-empty output, some other would not.
C5_Witness ==
  /\ Len(filteredInternships) >= 1
  /\ hasActiveFilters(filters)
  /\ \E p \in Catalogue : kept(p, filters)
  /\ \E q \in Catalogue : ~kept(q, filters)

-----------------------------------------------------------------------------
(* Properties of the single predicates                                     *)

\* Two characters that are the same letter, in whatever case.
SameLetter(a, b) ==
  \/ a = b
  \/ \E k \in 1..Len(UpperCaseLetters) :
       {a, b} \subseteq {UpperCaseLetters[k], LowerCaseLetters[k]}

\* term occurs in text, case ignored.
ContainsIgnoreCase(text, term) ==
  \E i \in 0..(Len(text) - Len(term)) :
    \A j \in 1..Len(term) : SameLetter(text[i + j], term[j])

upperCaseChar(c) ==
  IF \E k \in 1..Len(LowerCaseLetters) : LowerCaseLetters[k] = c
  THEN UpperCaseLetters[CHOOSE k \in 1..Len(LowerCaseLetters) : LowerCaseLetters[k] = c]
  ELSE c

upperCased(s) == [i \in 1..Len(s) |-> upperCaseChar(s[i])]

\* The posting with its four searched fields in upper case.
shouting(posting) ==
  [posting EXCEPT !.title = upperCased(@), !.description = upperCased(@),
                  !.company = upperCased(@), !.location = upperCased(@)]

OnlySearchTermActive ==
  /\ Truthy(filters.searchTerm)
  /\ filters = [neutralFilters EXCEPT !.searchTerm = filters.searchTerm]

SearchTermFound(posting) ==
  \/ ContainsIgnoreCase(posting.title, filters.searchTerm)
  \/ ContainsIgnoreCase(posting.description, filters.searchTerm)
  \/ ContainsIgnoreCase(posting.company, filters.searchTerm)
  \/ ContainsIgnoreCase(posting.location, filters.searchTerm)

\* C6: with only the search term active, the postings kept are exactly those
\* whose title, description, company or location contains the term, case
\* ignored; changing the case of the term or of the fields changes nothing.
C6_SearchTermIgnoresCase ==
  OnlySearchTermActive =>
    /\ filteredInternships = SelectSeq(internships, SearchTermFound)
    /\ \A t \in {upperCased(filters.searchTerm), toLowerCase(filters.searchTerm)} :
         filterInternships(internships, [filters EXCEPT !.searchTerm = t])
           = filteredInternships
    /\ \A k \in 1..Len(internships) :
         kept(shouting(internships[k]), filters) <=> kept(internships[k], filters)

\* "python" finds "Python backend" in the description alone.
C6_Witness ==
  /\ OnlySearchTermActive
  /\ filters.searchTerm = s_python
  /\ Len(internships) = 2
  /\ Len(filteredInternships) = 1
  /\ filteredInternships[1].description = s_Python_backend

FourBuckets == {kw_paid, kw_unpaid, kw_competitive, kw_hourly}

OnlySalaryRangeActive ==
  /\ filters.salaryRange \in FourBuckets
  /\ filters = [neutralFilters EXCEPT !.salaryRange = filters.salaryRange]

\* The salary text of a posting, an absent one read as empty.
SalaryTextOf(posting) ==
  IF posting.salary = undefined THEN <<>> ELSE posting.salary

HasWord(posting, word) == ContainsIgnoreCase(SalaryTextOf(posting), word)

HasSymbol(posting, symbols) ==
  \E c \in symbols : ContainsIgnoreCase(SalaryTextOf(posting), <<c>>)

\* The bucket rules, for a given set of currency symbols.
BucketRule(posting, bucket, symbols) ==
  IF bucket = kw_paid
  THEN \/ HasWord(posting, kw_paid) \/ HasSymbol(posting, symbols)
       \/ HasWord(posting, kw_hourly) \/ HasWord(posting, kw_competitive)
  ELSE IF bucket = kw_unpaid
  THEN HasWord(posting, kw_unpaid) \/ HasWord(posting, kw_volunteer)
  ELSE IF bucket = kw_competitive
  THEN HasWord(posting, kw_competitive)
  ELSE HasWord(posting, kw_hourly) \/ HasSymbol(posting, symbols)

CurrencySymbols == {"$", "U+20AC"}

InAnyCurrencyBucket(posting) == BucketRule(posting, filters.salaryRange, CurrencySymbols)

InDollarBucket(posting) == BucketRule(posting, filters.salaryRange, {"$"})

\* C7 as claimed: with only a salary bucket selected, the postings kept are
\* exactly those the bucket's rule accepts, 'paid' and 'hourly' accepting any
\* currency symbol.
C7_BucketRulesAnyCurrencySymbol ==
  OnlySalaryRangeActive =>
    filteredInternships = SelectSeq(internships, InAnyCurrencyBucket)

\* C7 amended: with only a salary bucket selected, the postings kept are
\* exactly those the bucket's rule accepts, where the one currency symbol
\* that 'paid' and 'hourly' accept is the dollar sign.
C7_BucketRulesDollarSign ==
  OnlySalaryRangeActive =>
    filteredInternships = SelectSeq(internships, InDollarBucket)

\* Bucket 'unpaid' drops the "$25/hr" posting and keeps the "Unpaid" one.
C7_Witness ==
  /\ OnlySalaryRangeActive
  /\ filters.salaryRange = kw_unpaid
  /\ Len(internships) = 2
  /\ internships[1].salary = s_25_hr
  /\ internships[2].salary = s_Unpaid
  /\ filteredInternships = <<internships[2]>>

AbsentOrEmptySalary(posting) ==
  posting.salary = undefined \/ posting.salary = <<>>

\* C8: a posting without salary text is never in the output while one of the
\* four buckets is selected, and with no bucket selected it is kept exactly
\* when the same posting with a salary text would be.
C8_MissingSalaryFailsEveryBucket ==
  /\ filters.salaryRange \in FourBuckets =>
       \A k \in 1..Len(filteredInternships) :
         ~AbsentOrEmptySalary(filteredInternships[k])
  /\ filters.salaryRange = <<>> =>
       \A k \in 1..Len(internships) :
         AbsentOrEmptySalary(internships[k]) =>
           (kept(internships[k], filters)
              <=> kept([internships[k] EXCEPT !.salary = s_Competitive], filters))

C8_Witness ==
  /\ OnlySalaryRangeActive
  /\ Len(internships) = 1
  /\ AbsentOrEmptySalary(internships[1])
  /\ filteredInternships = <<>>

-----------------------------------------------------------------------------
(* Neutral and unknown criteria values; totality                           *)

\* The field `key' of the criteria, taken alone, removes no posting.
NeverExcludes(key) ==
  filterInternships(internships, Only(filters, key)) = internships

\* The field `key' of the criteria, taken alone, removes every posting.
ExcludesAll(key) ==
  filterInternships(internships, Only(filters, key)) = <<>>

\* The values a selector offers besides "any".
Offered(options) == options \ {<<>>}

\* C9 as claimed: a criteria field that is empty, or holds a value its
\* selector does not offer, removes no posting.
C9_UnknownOrEmptyNeverExcludes ==
  /\ filters.searchTerm = <<>> => NeverExcludes("searchTerm")
  /\ filters.remoteOnly = FALSE => NeverExcludes("remoteOnly")
  /\ filters.salaryRange \notin Offered(salaryRangeOptions) => NeverExcludes("salaryRange")
  /\ filters.location \notin Offered(locationOptions(internships)) => NeverExcludes("location")
  /\ filters.company \notin Offered(companyOptions(internships)) => NeverExcludes("company")
  /\ filters.jobType \notin Offered(jobTypeOptions(internships)) => NeverExcludes("jobType")

\* C9 amended: an empty (or false) criteria field removes no posting, and
\* neither does a salaryRange outside the four buckets; a non-empty location,
\* company or jobType that no posting has removes every posting.
C9_EmptyNeverExcludesUnknownSelectorExcludesAll ==
  /\ filters.searchTerm = <<>> => NeverExcludes("searchTerm")
  /\ filters.remoteOnly = FALSE => NeverExcludes("remoteOnly")
  /\ filters.salaryRange \notin Offered(salaryRangeOptions) => NeverExcludes("salaryRange")
  /\ \A key \in {"location", "company", "jobType"} :
       LET options == IF key = "location" THEN locationOptions(internships)
                      ELSE IF key = "company" THEN companyOptions(internships)
                      ELSE jobTypeOptions(internships)
       IN /\ filters[key] = <<>> => NeverExcludes(key)
          /\ (filters[key] # <<>> /\ filters[key] \notin options) =>
               (ExcludesAll(key) /\ filteredInternships = <<>>)

\* An unknown salaryRange keeps both postings; with a location neither has,
\* nothing is left.
C9_Witness ==
  /\ Len(internships) = 2
  /\ filters.salaryRange = s_stipend
  /\ NeverExcludes("salaryRange")
  /\ filters.location = s_nyc
  /\ ExcludesAll("location")
  /\ filteredInternships = <<>>

-----------------------------------------------------------------------------
(* Properties of the remote-only, exact-match and salary-bucket predicates *)

\* The postings of list whose remote flag is true, in their order.
WithRemoteFlag(list) == SelectSeq(list, LAMBDA p : p.remote = "true")

\* C11: with remoteOnly true a posting is kept only if its remote flag is
\* true (a false or absent flag excludes it); with remoteOnly false the
\* remote flag has no effect on whether a posting is kept.
C11_RemoteOnly ==
  /\ filters.remoteOnly =>
        \A k \in 1..Len(filteredInternships) : filteredInternships[k].remote = "true"
  /\ (filters.remoteOnly /\ Only(filters, "remoteOnly") = filters) =>
        filteredInternships = WithRemoteFlag(internships)
  /\ ~filters.remoteOnly =>
        \A k \in 1..Len(internships) : \A r \in RemoteFlags :
          kept([internships[k] EXCEPT !.remote = r], filters)
            <=> kept(internships[k], filters)

\* Only remoteOnly is active; the posting with the absent flag is dropped,
\* the one with the true flag stays.
C11_Witness ==
  /\ filters.remoteOnly /\ Only(filters, "remoteOnly") = filters
  /\ Len(internships) = 2
  /\ internships[1].remote = "true" /\ internships[2].remote = "undefined"
  /\ filteredInternships = <<internships[1]>>

\* The field of a posting that a selector compares.
SelectorField == [location |-> "location", company |-> "company", jobType |-> "job_type"]

\* C12: for each selector (location, company, job type) with a non-empty
\* criteria value, a posting is kept exactly when its field equals the value,
\* character for character (case matters, nothing is normalised); a posting
\* without a job_type is excluded whenever a job type is selected.
C12_ExactMatchSelectors ==
  /\ \A key \in DOMAIN SelectorField :
        filters[key] # <<>> =>
          /\ \A k \in 1..Len(filteredInternships) :
                filteredInternships[k][SelectorField[key]] = filters[key]
          /\ Only(filters, key) = filters =>
                filteredInternships =
                  SelectSeq(internships, LAMBDA p : p[SelectorField[key]] = filters[key])
  /\ filters.jobType # <<>> =>
        \A k \in 1..Len(filteredInternships) :
          filteredInternships[k].job_type # undefined

\* The selected location differs from the posting's only in case, and the
\* posting is dropped.
C12_Witness ==
  /\ filters.location = s_nyc /\ Only(filters, "location") = filters
  /\ Len(internships) = 1 /\ internships[1].location = s_NYC
  /\ filteredInternships = <<>>

\* C17: the salary buckets overlap: every posting kept under 'competitive'
\* is also kept under 'paid', and every posting whose salary contains
\* "unpaid" is kept under both 'unpaid' and 'paid' (the other criteria
\* being equal).
C17_BucketsOverlap ==
  \A k \in 1..Len(internships) :
    LET p == internships[k]
        under(bucket) == kept(p, [filters EXCEPT !.salaryRange = bucket])
        alone(bucket) == kept(p, [neutralFilters EXCEPT !.salaryRange = bucket])
    IN /\ under(kw_competitive) => under(kw_paid)
       /\ HasWord(p, kw_unpaid) => alone(kw_unpaid) /\ alone(kw_paid)
       /\ (HasWord(p, kw_unpaid) /\ under(<<>>)) => under(kw_unpaid) /\ under(kw_paid)

\* 'paid' is selected and keeps a posting whose salary is "Competitive",
\* which 'competitive' keeps as well.
C17_Witness ==
  /\ filters.salaryRange = kw_paid
  /\ Len(internships) = 1 /\ internships[1].salary = s_Competitive
  /\ filteredInternships = internships
  /\ kept(internships[1], [filters EXCEPT !.salaryRange = kw_competitive])

-----------------------------------------------------------------------------
(* Properties of the derived selector options                              *)

\* seq is strictly ascending in code-unit order (hence without duplicates).
Ascending(seq) == \A k \in 1..(Len(seq) - 1) : sortsBefore(seq[k], seq[k + 1])

Elements(seq) == {seq[k] : k \in 1..Len(seq)}

\* The non-empty values of a field that occur in the collection.
ObservedNonEmpty(field) ==
  {internships[k][field] : k \in 1..Len(internships)} \ {<<>>, undefined}

\* C13: the options derived for location, company and job type each hold
\* exactly the distinct non-empty values observed in the collection, without
\* duplicates, without an empty or absent value, in ascending lexical order.
C13_DerivedOptions ==
  /\ Ascending(uniqueLocations(internships))
  /\ Elements(uniqueLocations(internships)) = ObservedNonEmpty("location")
  /\ Ascending(uniqueCompanies(internships))
  /\ Elements(uniqueCompanies(internships)) = ObservedNonEmpty("company")
  /\ Ascending(uniqueJobTypes(internships))
  /\ Elements(uniqueJobTypes(internships)) = ObservedNonEmpty("job_type")

-----------------------------------------------------------------------------
(* Properties of the listing fetches                                       *)

\* C14: in every reachable state of the page the rendered filtered list is
\* filter(internships, filters) of the current internships and criteria,
\* whatever fetches, filter changes and clears led there.
C14_FilteredListFollowsState ==
  /\ ~filterError
  /\ filteredInternships = filterInternships(internships, filters)

\* A criteria change after a fetch left one of two postings, and a later
\* fetch failed without touching the collection.
C14_Witness ==
  /\ Len(internships) = 2 /\ Len(filteredInternships) = 1
  /\ hasActiveFilters(filters)
  /\ error # NoError

\* C15: a failed listing fetch (rejection or non-ok response) is shown as
\* an error with the "Try Again" button and is not retried: the failing
\* step leaves one request fewer in flight, and a new GET /internships is
\* only ever issued by the effect on [user, token], by "Try Again", by
\* "Refresh Data" or by a "Refresh" whose trigger request has answered.
C15_FailureShownNeverRetried ==
  [][ /\ (fetchInternshipsFailed \/ handleRefreshRejected) =>
           /\ tryAgainShown'
           /\ fetchPending' <= fetchPending /\ refreshPending' <= refreshPending
           /\ requestsInFlight' = requestsInFlight - 1
      /\ fetchPending' > fetchPending =>
           \/ useEffectListing \/ clickTryAgain \/ clickRefreshData
           \/ handleRefreshTriggered ]_vars

\* A fetch has failed: the error is shown, nothing loads, and no request
\* is in flight.
C15_Witness ==
  /\ error = FailedToFetchInternships
  /\ tryAgainShown
  /\ ~loading
  /\ fetchPending = 0 /\ refreshPending = 0

-----------------------------------------------------------------------------
(* Properties of the saved-jobs handlers                                   *)

\* The requests this step sends.
issuedNow ==
  {c \in BagToSet(calls') : c.st = "sent" /\ CopiesIn(c, calls') > CopiesIn(c, calls)}

\* This step takes an ok answer out of the requests in flight.
okAnswerArrives ==
  \E c \in inFlight : c.st = "ok" /\ CopiesIn(c, calls') < CopiesIn(c, calls)

\* C16: no saved-jobs request (list, ids, save, unsave) is sent while the
\* token is absent, and every request that is sent carries the current
\* token; called with no token, handleSaveJob and handleUnsaveJob leave
\* savedJobIds, savedJobs and savingJobs as they were.
C16_RequestsCarryCurrentToken ==
  [][ /\ \A c \in issuedNow : token' # NoToken /\ c.tok = token'
      /\ (/\ token = NoToken
          /\ \E id \in JobIds : handleSaveJob(id) \/ handleUnsaveJob(id)) =>
           UNCHANGED <<savedJobIds, savedJobs, savingJobs>> ]_vars

\* C18: savedJobIds changes only when an ok answer arrives: handleSaveJob
\* adds the id exactly when the POST answers ok, handleUnsaveJob removes it
\* exactly when the DELETE answers ok; when the answer is not ok or the
\* request rejects, savedJobIds stays and no saved-jobs list is requested.
C18_SavedJobIdsOnlyOnSuccess ==
  [][ /\ savedJobIds' # savedJobIds => okAnswerArrives
      /\ \A c \in inFlight :
           /\ handleSaveJobOk(c) => c.id \in savedJobIds'
           /\ handleUnsaveJobOk(c) => c.id \notin savedJobIds'
           /\ handleSaveOrUnsaveFailed(c) =>
                /\ savedJobIds' = savedJobIds
                /\ issuedNow = {} ]_vars

\* The POST for an id was answered ok: the id is in savedJobIds, the list
\* refresh that follows is in flight and has not yet replaced savedJobs.
C18_Witness ==
  \E c \in inFlight :
    /\ c.op = "list" /\ c.after # None
    /\ c.after \in savedJobIds /\ c.after \notin savedJobs
    /\ c.tok = token

\* The ids for which a handleSaveJob or handleUnsaveJob has not finished.
handlersRunning ==
  {c.id : c \in {d \in inFlight : d.op \in {"save", "unsave"}}}
    \cup {c.after : c \in {d \in inFlight : d.after # None}}

\* C19: the id of every save or unsave is in savingJobs from the moment the
\* request is sent until its handler has finished (the list refresh after
\* an ok answer included) and is taken out on every outcome, so savingJobs
\* holds exactly the ids whose handlers run, and nothing once all finished.
C19_MarkerHeldWhileHandlerRuns == savingJobs = handlersRunning

\* C20: once every saved-jobs request in flight has been answered ok and
\* has arrived, savedJobIds is the saved set the server keeps for the user.
C20_SavedIdsEqualServerWhenQuiet ==
  (token # NoToken /\ BagCardinality(calls) = 0) => savedJobIds = serverSaved[token]

\* C21: whenever no saved-jobs request is in flight, savedJobIds is the set
\* of the ids of the records in savedJobs (the "Saved Jobs (n)" count and
\* the saved view agree with the markers on the cards), also after a save
\* or unsave whose list refresh fails or is answered not ok.
C21_SavedIdsMatchSavedJobsWhenQuiet ==
  BagCardinality(calls) = 0 => savedJobIds = savedJobs

-----------------------------------------------------------------------------
(* Properties of the loading flag, the error and the panels                *)

\* C22: loading is true whenever a listing request (a fetchInternships, or
\* the trigger request of a handleRefresh) is in flight, also when several
\* were started concurrently: loading does not become false while another
\* listing request is outstanding.
C22_LoadingWhileRequestInFlight == requestsInFlight > 0 => loading

\* C23: every fetchInternships whose request completes ends with loading
\* false, on success and on failure, and so does handleRefresh on each of
\* its paths (trigger rejected, listing fetch failed or succeeded): once no
\* listing request is in flight, loading is false.
C23_LoadingEndsFalse ==
  [][ /\ (fetchInternshipsOk \/ fetchInternshipsFailed \/ handleRefreshRejected)
           => ~loading'
      /\ requestsInFlight' = 0 => ~loading' ]_vars

\* Everything has completed, the last request with a rejection; a posting
\* fetched earlier is still there and nothing loads.
C23_Witness ==
  /\ fetchPending = 0 /\ refreshPending = 0
  /\ ~loading
  /\ error = RejectionMessage
  /\ Len(internships) = 1

\* error becomes null, or stops being null, in this step.
errorShownChanges == (error' = NoError) # (error = NoError)

\* C24: a failed listing fetch leaves internships as it was and sets error
\* to a message; a successful one replaces internships by the response and
\* sets error to null; hence error is non-null exactly when the listing
\* fetch that completed last failed (no other step shows or clears it).
C24_ErrorIffLastFetchFailed ==
  [][ /\ fetchInternshipsFailed => (internships' = internships /\ error' # NoError)
      /\ fetchInternshipsOk => (internships' \in ListingData /\ error' = NoError)
      /\ errorShownChanges => (fetchInternshipsOk \/ fetchInternshipsFailed) ]_vars

\* C24, amended: as above for the failed and the successful listing fetch;
\* a rejected refresh trigger also sets error to a message and leaves
\* internships as it was, and no other step shows or clears the error.
C24_ErrorIffLastFetchOrTriggerFailed ==
  [][ /\ fetchInternshipsFailed => (internships' = internships /\ error' # NoError)
      /\ fetchInternshipsOk => (internships' \in ListingData /\ error' = NoError)
      /\ handleRefreshRejected => (internships' = internships /\ error' # NoError)
      /\ errorShownChanges =>
           (fetchInternshipsOk \/ fetchInternshipsFailed \/ handleRefreshRejected) ]_vars

\* A fetch answered not ok after an earlier one had brought two postings:
\* the postings are kept and the message is shown.
C24_Witness ==
  /\ error = FailedToFetchInternships
  /\ Len(internships) = 2
  /\ fetchPending = 0

\* C25: handleRefresh issues the listing fetch only after the trigger
\* request has completed: none at the click; none when the trigger rejects
\* (error is set, loading is false); one when the trigger is answered, with
\* whatever status.
C25_RefreshFetchesAfterTrigger ==
  [][ /\ handleRefresh => fetchPending' = fetchPending
      /\ handleRefreshRejected =>
           (fetchPending' = fetchPending /\ error' # NoError /\ ~loading')
      /\ handleRefreshTriggered =>
           (fetchPending' = fetchPending + 1 /\ loading') ]_vars

\* "Refresh" was clicked with postings on the page: the trigger request is
\* in flight and no listing fetch has been issued.
C25_Witness ==
  /\ refreshPending = 1 /\ fetchPending = 0
  /\ loading
  /\ Len(internships) > 0

\* The main content panels, by their render conditions.
spinnerShown == loading /\ Len(internships) = 0

gridShown == ~loading /\ viewMode = "all" /\ Len(filteredInternships) > 0

savedGridShown == ~loading /\ viewMode = "saved" /\ Cardinality(savedJobs) > 0

emptySavedShown == ~loading /\ viewMode = "saved" /\ Cardinality(savedJobs) = 0

noInternshipsShown == ~loading /\ Len(internships) = 0 /\ error = NoError

noMatchShown == ~loading /\ Len(internships) > 0 /\ Len(filteredInternships) = 0

panelsShown ==
  LET shown == <<spinnerShown, gridShown, savedGridShown, emptySavedShown,
                 noInternshipsShown, noMatchShown>>
  IN {k \in 1..Len(shown) : shown[k]}

\* C26: at most one of the main content panels (spinner, internships grid,
\* saved-jobs grid, empty-saved message, "No internships found", "No
\* internships match your filters") is rendered in any reachable state; the
\* last two are never rendered in the saved-jobs view.
C26_AtMostOnePanel ==
  /\ Cardinality(panelsShown) <= 1
  /\ viewMode = "saved" => (~noInternshipsShown /\ ~noMatchShown)

\* C27: the savedJobIds and savedJobs held while a token is current contain
\* only entries fetched with that token: once no request is in flight, each
\* entry is among the saved postings of the current token's account,
\* whether the fetches were answered ok, not ok or failed.  (Nothing is
\* saved or unsaved in these runs, so an entry outside that set was fetched
\* with another token.)
C27_OnlyEntriesOfCurrentToken ==
  (token # NoToken /\ BagCardinality(calls) = 0) =>
     (savedJobIds \subseteq serverSaved[token] /\ savedJobs \subseteq serverSaved[token])

====
